---- MODULE Spec2Model ----
(***************************************************************************)
(* State-machine model of core/ai.py (GeminiScorer): the credential pool   *)
(* with its rotation, the endpoint catalog, and the attempt loops of       *)
(* batch_filter_and_score_articles, batch_score_articles and               *)
(* score_article; of HTTPClient.fetch (core/http_client.py), of            *)
(* TelegramPublisher.publish (core/publisher.py), of Database (core/db.py) *)
(* and of the pipeline of main.py.  Scores are written in tenths (6.0 is   *)
(* 60).                                                                    *)
(***************************************************************************)
EXTENDS Integers, Sequences, FiniteSets, TLC

\* ------------------------------------------------------------------ bounds
MaxKeys == 2        \* credentials found in the environment: 0..MaxKeys
NumModels == 3      \* length of the endpoint catalog (12 in the source)
MaxArticles == 2    \* length of the input list of one call
MaxRecs == 2        \* judgment records in one response (SpecData)
MaxPartial == 1     \* responses of one call that raise after applying records
MaxGroups == 2      \* chat ids configured over all bots: 0..MaxGroups

\* ------------------------------------------------------- program constants
THRESHOLD == 60         \* approval threshold 6.0
FILTER_DEFAULT == 60    \* sentinel of batch_filter_and_score_articles
SCORE_DEFAULT == 50     \* sentinel of batch_score_articles / score_article
DISABLED_SCORE == 0     \* score_article without a model returns 0.0
INITIAL_SCORE == 0      \* Article.score default

Hashes == {"h1", "h2"}
ChatIds == {"c1", "c2"} \* chat ids the environment may name
Scores == {40, 60}      \* scores a response may hold
NoModel == -1           \* self.model is None / attribute never set
Unset == -1             \* key absent from the scores dict

VARIABLES
    api_keys,            \* self.api_keys (sequence of credentials)
    current_key_index,   \* self.current_key_index
    current_model_name,  \* self.current_model_name (catalog position)
    model,               \* self.model: endpoint the bound client targets
    pc,                  \* "idle" | "loop" | "records" | "after" | "done"
    op,                  \* "none" | "filter" | "score" | "single"
    articles,            \* the input list; each item has content_hash, score
    batch_size,
    i,                   \* offset of the current batch in articles
    attempt,             \* loop variable of the attempt loop
    batch_success,
    nrecs,               \* records of the current response processed so far
    approved_articles,   \* filter variant: list of (indices of) items
    scores,              \* score variant: content_hash -> score
    ret,                 \* value returned by the call (list, map, score)
    reqs,                \* history: requests issued for the current batch
    seen,                \* history: per item, scores of its applied records
    ended,               \* history: how the current batch ended
    last,                \* history: outcome class of the latest attempt
    msg,                 \* history: markers in the message of the exception it caught
    oor,                 \* history: the current response held an out-of-range ordinal
    partials,            \* history: responses that raised after applying records
    only_quota,          \* history: every attempt of the batch so far hit a quota error
    defaulted,           \* history: items whose batch was given the default outcome
    sent,                \* history: the slices of the list that requests have carried
    terminal,            \* history: items whose batch has ended (succeeded or defaulted)
    rotlog,              \* history: the _rotate_api_key call of the last step
    fpc,                 \* HTTPClient.fetch: "idle" | "get" | "cache" | "done"
    attempt_number,      \* HTTPClient.fetch: the attempt the retry wrapper is in
    fret,                \* HTTPClient.fetch: what the caller receives
    gets,                \* history: outcomes of the GET requests of the fetch call
    bot_configs,         \* TelegramPublisher.bot_configs: per bot, its chat ids
    ppc,                 \* publish: "new" | "idle" | "send" | "done"
    pub_articles,        \* publish: the list it was called with
    pub_article,         \* publish: position of the current article in it
    slot,                \* publish: position of the current (bot, chat) pair
    send_attempt,        \* publish: loop variable of the retry loop
    total_published,     \* publish: successful sends of the current article
    attempted,           \* history: <<article, bot, chat>> positions a send was made for
    got,                 \* history: per chat id, deliveries of the current article
    tries,               \* history: sends made for the current pair
    plast,               \* history: "ok" or the error message of the latest send
    praised,             \* history: an exception left publish
    dbpc,                \* Database: "new" | "open"
    enabled,             \* Database.enabled
    db_articles,         \* the table "articles": content_hash -> row
    memory_hashes,       \* Database._memory_hashes (used when disabled)
    dlast,               \* history: the latest call on the store and its result
    mpc,                 \* main: "idle" | "dedup" | "batch" | "score" | "publish" | "done" | "crashed"
    all_articles,        \* main: what the scrapers returned
    new_articles,        \* main: the items the store did not know
    batch_num,           \* main: offset of the current batch in new_articles
    approved_batch,      \* main: what the filter returned for the batch
    art_idx,             \* main: position in approved_batch (idx)
    score,               \* main: what score_article returned for the item
    published_count,
    nscored,             \* history: per fingerprint, score_article calls of the run
    npublished,          \* history: per fingerprint, publish calls of the run
    delivered,           \* history: fingerprints a publish call of the run delivered to a chat
    marked,              \* history: fingerprints whose posted flag the run set
    known                \* history: fingerprints the store held when the run looked

vars == <<api_keys, current_key_index, current_model_name, model, pc, op,
          articles, batch_size, i, attempt, batch_success, nrecs,
          approved_articles, scores, ret, reqs, seen, ended, last, msg, oor,
          partials, only_quota, defaulted, sent, terminal, rotlog,
          fpc, attempt_number, fret, gets,
          bot_configs, ppc, pub_articles, pub_article, slot, send_attempt,
          total_published, attempted, got, tries, plast, praised,
          dbpc, enabled, db_articles, memory_hashes, dlast,
          mpc, all_articles, new_articles, batch_num, approved_batch, art_idx,
          score, published_count, nscored, npublished, delivered, marked, known>>

scorer == <<api_keys, current_key_index, current_model_name, model>>

\* the state of GeminiScorer and of its calls / of HTTPClient.fetch
aivars == <<api_keys, current_key_index, current_model_name, model, pc, op,
            articles, batch_size, i, attempt, batch_success, nrecs,
            approved_articles, scores, ret, reqs, seen, ended, last, msg, oor,
            partials, only_quota, defaulted, sent, terminal, rotlog>>
fetchvars == <<fpc, attempt_number, fret, gets>>
\* the state of TelegramPublisher and of its publish call
pubvars == <<bot_configs, ppc, pub_articles, pub_article, slot, send_attempt,
             total_published, attempted, got, tries, plast, praised>>
\* the state of Database
dbvars == <<dbpc, enabled, db_articles, memory_hashes, dlast>>
\* what the operations of one component leave alone
\* the state of main
mainvars == <<mpc, all_articles, new_articles, batch_num, approved_batch, art_idx,
              score, published_count, nscored, npublished, delivered, marked, known>>
notai == <<fetchvars, pubvars, dbvars, mainvars>>
notfetch == <<aivars, pubvars, dbvars, mainvars>>
notpub == <<aivars, fetchvars, dbvars, mainvars>>
notdb == <<aivars, fetchvars, pubvars, mainvars>>

\* ------------------------------------------------------------ the catalog
fallback_models == [k \in 1..NumModels |-> k - 1]

Min(a, b) == IF a < b THEN a ELSE b

\* variant: one sweep too many
max_attempts_extra == (Len(api_keys) + 1) * Len(fallback_models)

\* line 108 / 228 / 339
max_attempts == Len(api_keys) * Len(fallback_models)
\* line 112 / 232 / 341
model_index(a) == a % Len(fallback_models)
\* line 113 / 233 / 342
key_index(a) == a \div Len(fallback_models)
\* line 114
model_name_of(a) == fallback_models[model_index(a) + 1]

\* ------------------------------------------------------------- rotation
NoRot == [called |-> FALSE]

\* variant: the index is advanced without wrapping
rotate_api_key_nowrap(keys, idx, name, mdl) ==
    IF Len(keys) <= 1
    THEN [ret |-> FALSE, idx |-> idx, name |-> name, model |-> mdl]
    ELSE [ret |-> TRUE, idx |-> idx + 1, name |-> name, model |-> name]

\* variant: the rotation itself goes back to the first endpoint
rotate_api_key_reset(keys, idx, name, mdl) ==
    IF Len(keys) <= 1
    THEN [ret |-> FALSE, idx |-> idx, name |-> name, model |-> mdl]
    ELSE [ret |-> TRUE, idx |-> (idx + 1) % Len(keys),
          name |-> fallback_models[1], model |-> fallback_models[1]]

\* variant: the rotation binds the model object to the first endpoint and
\* leaves current_model_name as it is
rotate_api_key_rebind(keys, idx, name, mdl) ==
    IF Len(keys) <= 1
    THEN [ret |-> FALSE, idx |-> idx, name |-> name, model |-> mdl]
    ELSE [ret |-> TRUE, idx |-> (idx + 1) % Len(keys),
          name |-> name, model |-> fallback_models[1]]

\* _rotate_api_key applied to (keys, index, name, model): the returned flag
\* and the three fields after the call.
rotate_api_key(keys, idx, name, mdl) ==
    IF Len(keys) <= 1
    THEN [ret |-> FALSE, idx |-> idx, name |-> name, model |-> mdl]
    ELSE [ret |-> TRUE, idx |-> (idx + 1) % Len(keys),
          name |-> name, model |-> name]

RotRecord(r, idx, name, mdl, who) ==
    [called |-> TRUE, by |-> who, ret |-> r.ret,
     old_index |-> idx, old_name |-> name, old_model |-> mdl,
     new_index |-> r.idx, new_name |-> r.name, new_model |-> r.model]

\* ------------------------------------------------------- error classes
\* An exception is known by the markers its lowered message contains.
Markers == [nf : BOOLEAN, q : BOOLEAN]
NoMarkers == [nf |-> FALSE, q |-> FALSE]

\* variant: the quota markers are looked for first
Classify_quotafirst(m) ==
    IF m.q THEN "quota"
    ELSE IF m.nf THEN "notfound"
    ELSE "other"

\* lines 155 / 158 / 174
Classify(m) ==
    IF m.nf THEN "notfound"
    ELSE IF m.q THEN "quota"
    ELSE "other"

\* variant: a quota error rotates at the first endpoint of a sweep
OnQuota_first(a, keys) ==
    IF model_index(a) = 0
    THEN IF key_index(a) < Len(keys) - 1 THEN "rotate" ELSE "next"
    ELSE IF model_index(a) = Len(fallback_models) - 1 /\ key_index(a) >= Len(keys) - 1
    THEN "exhausted"
    ELSE "next"

\* variant: a quota error rotates whatever the endpoint is
OnQuota_any_model(a, keys) ==
    IF key_index(a) < Len(keys) - 1 THEN "rotate"
    ELSE IF model_index(a) = Len(fallback_models) - 1 THEN "exhausted"
    ELSE "next"

\* lines 158-173 / 284-299 / 379-394: what the quota branch decides
OnQuota(a, keys) ==
    IF model_index(a) = Len(fallback_models) - 1
    THEN IF key_index(a) < Len(keys) - 1 THEN "rotate" ELSE "exhausted"
    ELSE "next"

\* ------------------------------------------------------------- batches
BatchLen == Min(batch_size, Len(articles) - i)
BatchIdx == {i + k : k \in 1..BatchLen}

\* a judgment record: the ordinal may fall outside 1..n
Records(n, S) == [id : 0..(n + 1), score : S]

\* line 263: the ordinal is in range
InRange(rec, n) == 1 <= rec.id /\ rec.id <= n

\* variant: the threshold itself is rejected
Approves_strict(rec, n) == InRange(rec, n) /\ rec.score > THRESHOLD

\* line 143: the record approves an item of the batch
Approves(rec, n) == InRange(rec, n) /\ rec.score >= THRESHOLD

\* variant: an item that is already approved is not approved again
FilterRecord_once(st, rec, off, n) ==
    IF Approves(rec, n) /\ \A k \in 1..Len(st.approved) : st.approved[k] # off + rec.id
    THEN [st EXCEPT !.arts[off + rec.id].score = rec.score,
                    !.approved = Append(st.approved, off + rec.id)]
    ELSE st

\* lines 141-146: one record of the filter variant; st = [arts, approved, scores]
FilterRecord(st, rec, off, n) ==
    IF Approves(rec, n)
    THEN [st EXCEPT !.arts[off + rec.id].score = rec.score,
                    !.approved = Append(st.approved, off + rec.id)]
    ELSE st

\* variant: an ordinal beyond the batch is taken for its last item
ScoreRecord_clamp(st, rec, off, n) ==
    IF 1 <= rec.id
    THEN [st EXCEPT !.arts[off + Min(rec.id, n)].score = rec.score,
                    !.scores[st.arts[off + Min(rec.id, n)].content_hash] = rec.score]
    ELSE st

\* lines 261-266: one record of the score variant
ScoreRecord(st, rec, off, n) ==
    IF InRange(rec, n)
    THEN [st EXCEPT !.arts[off + rec.id].score = rec.score,
                    !.scores[st.arts[off + rec.id].content_hash] = rec.score]
    ELSE st

\* variant: missing scores are not filled in
ScoreFill_none(st, idxs) == st

RECURSIVE ScoreFill(_, _)
\* lines 269-272 over the items idxs (ascending)
ScoreFill(st, idxs) ==
    IF idxs = <<>> THEN st
    ELSE LET k == Head(idxs)
             h == st.arts[k].content_hash
             nxt == IF st.scores[h] = Unset
                    THEN [st EXCEPT !.arts[k].score = SCORE_DEFAULT,
                                    !.scores[h] = SCORE_DEFAULT]
                    ELSE st
         IN ScoreFill(nxt, Tail(idxs))

BatchSeq(off, n) == [k \in 1..n |-> off + k]

\* variant: the items are kept but their score is left as it was
FilterDefault_keepscore(st, off, n) ==
    [st EXCEPT !.approved = st.approved \o BatchSeq(off, n)]

\* variant: the default score is set but the items are not kept
FilterDefault_noappend(st, off, n) ==
    [st EXCEPT !.arts = [k \in 1..Len(st.arts) |->
                           IF k \in {off + j : j \in 1..n}
                           THEN [st.arts[k] EXCEPT !.score = FILTER_DEFAULT]
                           ELSE st.arts[k]]]

\* lines 168-170 / 176-178 / 184-186
FilterDefault(st, off, n) ==
    [st EXCEPT !.arts = [k \in 1..Len(st.arts) |->
                           IF k \in {off + j : j \in 1..n}
                           THEN [st.arts[k] EXCEPT !.score = FILTER_DEFAULT]
                           ELSE st.arts[k]],
               !.approved = st.approved \o BatchSeq(off, n)]

\* lines 294-296 / 302-304 / 310-312
ScoreDefault(st, off, n) ==
    [st EXCEPT !.arts = [k \in 1..Len(st.arts) |->
                           IF k \in {off + j : j \in 1..n}
                           THEN [st.arts[k] EXCEPT !.score = SCORE_DEFAULT]
                           ELSE st.arts[k]],
               !.scores = [h \in Hashes |->
                           IF \E j \in 1..n : st.arts[off + j].content_hash = h
                           THEN SCORE_DEFAULT ELSE st.scores[h]]]

\* ------------------------------------------------------ returned values
\* what a call returns: the list of batch_filter_and_score_articles (items by
\* their position in the input), the dict of batch_score_articles, or the
\* float of score_article; the other two fields stay blank
NoRet == [list |-> <<>>, map |-> [h \in Hashes |-> Unset], score |-> Unset]
RetList(l) == [NoRet EXCEPT !.list = l]
RetMap(m) == [NoRet EXCEPT !.map = m]
RetScore(s) == [NoRet EXCEPT !.score = s]

\* --------------------------------------------------------------- the store
\* a row of the table "articles" (db.py lines 36-44) as far as it is used:
\* whether the key is there, its score and its posted flag
NoRow == [present |-> FALSE, score |-> 0, posted |-> 0]
Row(s, p) == [present |-> TRUE, score |-> s, posted |-> p]

NoCall == [op |-> "none", h |-> "h1", ret |-> FALSE, raised |-> FALSE]
Call(o, h, r, x) == [op |-> o, h |-> h, ret |-> r, raised |-> x]

\* ------------------------------------------------------------------ Init
\* __init__ (lines 11-50): the pool is what the environment holds.
Init ==
    /\ \E nk \in 0..MaxKeys :
         /\ api_keys = [k \in 1..nk |-> k]
         /\ current_key_index = IF nk = 0 THEN -1 ELSE 0
         /\ current_model_name = IF nk = 0 THEN NoModel ELSE fallback_models[1]
         /\ model = IF nk = 0 THEN NoModel ELSE fallback_models[1]
    /\ pc = "idle"
    /\ op = "none"
    /\ articles = <<>>
    /\ batch_size = 1
    /\ i = 0
    /\ attempt = 0
    /\ batch_success = FALSE
    /\ nrecs = 0
    /\ approved_articles = <<>>
    /\ scores = [h \in Hashes |-> Unset]
    /\ ret = NoRet
    /\ reqs = <<>>
    /\ seen = <<>>
    /\ ended = "none"
    /\ last = "none"
    /\ msg = NoMarkers
    /\ oor = FALSE
    /\ partials = 0
    /\ only_quota = TRUE
    /\ defaulted = {}
    /\ sent = {}
    /\ terminal = {}
    /\ rotlog = NoRot
    /\ fpc = "idle"
    /\ attempt_number = 1
    /\ fret = "none"
    /\ gets = <<>>
    /\ bot_configs = <<>>
    /\ ppc = "new"
    /\ pub_articles = <<>>
    /\ pub_article = 0
    /\ slot = 0
    /\ send_attempt = 0
    /\ total_published = 0
    /\ attempted = {}
    /\ got = [c \in ChatIds |-> 0]
    /\ tries = 0
    /\ plast = "none"
    /\ praised = FALSE
    /\ dbpc = "new"
    /\ enabled = TRUE
    /\ db_articles = [h \in Hashes |-> NoRow]
    /\ memory_hashes = {}
    /\ dlast = NoCall
    /\ mpc = "idle"
    /\ all_articles = <<>>
    /\ new_articles = <<>>
    /\ batch_num = 0
    /\ approved_batch = <<>>
    /\ art_idx = 0
    /\ score = 0
    /\ published_count = 0
    /\ nscored = [h \in Hashes |-> 0]
    /\ npublished = [h \in Hashes |-> 0]
    /\ delivered = {}
    /\ marked = {}
    /\ known = {}

\* --------------------------------------------------------------- calls
\* input lists up to renaming of the fingerprints: the first item is "h1"
ArticleLists ==
    LET all == UNION {[1..n -> [content_hash : Hashes, score : {INITIAL_SCORE}]] :
                        n \in 0..MaxArticles}
    IN {a \in all : a # <<>> => a[1].content_hash = "h1"}

ClearCall ==
    /\ i' = 0
    /\ attempt' = 0
    /\ batch_success' = FALSE
    /\ nrecs' = 0
    /\ approved_articles' = <<>>
    /\ scores' = [h \in Hashes |-> Unset]
    /\ reqs' = <<>>
    /\ ended' = "none"
    /\ last' = "none"
    /\ msg' = NoMarkers
    /\ oor' = FALSE
    /\ partials' = 0
    /\ only_quota' = TRUE
    /\ defaulted' = {}
    /\ sent' = {}
    /\ terminal' = {}
    /\ rotlog' = NoRot
    /\ UNCHANGED notai

\* variant: without a model the filter keeps nothing
CallFilter_keepnone(arts, bs) ==
    /\ pc = "idle"
    /\ op' = "filter"
    /\ articles' = arts
    /\ batch_size' = bs
    /\ seen' = [k \in 1..Len(arts) |-> {}]
    /\ ClearCall
    /\ IF model = NoModel \/ arts = <<>>
       THEN pc' = "done" /\ ret' = NoRet
       ELSE pc' = "loop" /\ ret' = NoRet
    /\ UNCHANGED scorer

\* batch_filter_and_score_articles, lines 67-80
CallFilter(arts, bs) ==
    /\ pc = "idle"
    /\ op' = "filter"
    /\ articles' = arts
    /\ batch_size' = bs
    /\ seen' = [k \in 1..Len(arts) |-> {}]
    /\ ClearCall
    /\ IF model = NoModel
       THEN pc' = "done" /\ ret' = RetList(BatchSeq(0, Len(arts)))
       ELSE IF arts = <<>>
       THEN pc' = "done" /\ ret' = NoRet
       ELSE pc' = "loop" /\ ret' = NoRet
    /\ UNCHANGED scorer

\* batch_score_articles, lines 191-203
CallScore(arts, bs) ==
    /\ pc = "idle"
    /\ op' = "score"
    /\ articles' = arts
    /\ batch_size' = bs
    /\ seen' = [k \in 1..Len(arts) |-> {}]
    /\ ClearCall
    /\ IF model = NoModel \/ arts = <<>>
       THEN /\ pc' = "done"
            /\ ret' = RetMap([h \in Hashes |->
                        IF \E k \in 1..Len(arts) : arts[k].content_hash = h
                        THEN SCORE_DEFAULT ELSE Unset])
       ELSE pc' = "loop" /\ ret' = NoRet
    /\ UNCHANGED scorer

\* score_article, lines 317-340
CallSingle(art) ==
    /\ pc = "idle"
    /\ op' = "single"
    /\ articles' = <<art>>
    /\ batch_size' = 1
    /\ seen' = <<{}>>
    /\ ClearCall
    /\ IF model = NoModel
       THEN pc' = "done" /\ ret' = RetScore(DISABLED_SCORE)
       ELSE pc' = "loop" /\ ret' = NoRet
    /\ UNCHANGED scorer

\* variant: the next batch starts one item further, whatever the batch size
NextBatch_overlap ==
    /\ pc = "after"
    /\ i' = i + 1
    /\ IF i + 1 < Len(articles)
       THEN pc' = "loop" /\ ret' = ret
       ELSE pc' = "done" /\ ret' = (IF op = "filter" THEN RetList(approved_articles) ELSE RetMap(scores))
    /\ attempt' = 0
    /\ batch_success' = FALSE
    /\ reqs' = <<>>
    /\ ended' = "none"
    /\ last' = "none"
    /\ msg' = NoMarkers
    /\ oor' = FALSE
    /\ only_quota' = TRUE
    /\ rotlog' = NoRot
    /\ UNCHANGED <<scorer, op, articles, batch_size, nrecs, approved_articles,
                   scores, seen, partials, defaulted, sent, terminal, notai>>

\* the batch is terminal: the for-loop over batches moves on (lines 79-80 /
\* 202-203) or the call returns (lines 189 / 315)
NextBatch ==
    /\ pc = "after"
    /\ i' = i + batch_size
    /\ IF i + batch_size < Len(articles)
       THEN pc' = "loop" /\ ret' = ret
       ELSE pc' = "done" /\ ret' = (IF op = "filter" THEN RetList(approved_articles) ELSE RetMap(scores))
    /\ attempt' = 0
    /\ batch_success' = FALSE
    /\ reqs' = <<>>
    /\ ended' = "none"
    /\ last' = "none"
    /\ msg' = NoMarkers
    /\ oor' = FALSE
    /\ only_quota' = TRUE
    /\ rotlog' = NoRot
    /\ UNCHANGED <<scorer, op, articles, batch_size, nrecs, approved_articles,
                   scores, seen, partials, defaulted, sent, terminal, notai>>

\* ------------------------------------------------------- one attempt
\* lines 114-123: bind the endpoint of this attempt and issue the request
BoundModel == IF model_name_of(attempt) # current_model_name
              THEN model_name_of(attempt) ELSE model
Request == [attempt |-> attempt, key |-> current_key_index, ep |-> BoundModel]

InLoop == pc = "loop" /\ attempt < max_attempts

Data == [arts |-> articles, approved |-> approved_articles, scores |-> scores]

\* the default outcome of the whole batch, applied to the data st
Defaulted(st) ==
    IF op = "filter" THEN FilterDefault(st, i, BatchLen)
    ELSE IF op = "score" THEN ScoreDefault(st, i, BatchLen)
    ELSE st

SetData(st) ==
    /\ articles' = st.arts
    /\ approved_articles' = st.approved
    /\ scores' = st.scores

\* variant: the loop goes on for one attempt that range() does not hold
MoreAttempts_long == attempt < max_attempts

\* variant: the loop gives up one attempt early
MoreAttempts_short == attempt + 2 < max_attempts

\* range(max_attempts) has one more value
MoreAttempts == attempt + 1 < max_attempts

\* `continue`: the next iteration, or the loop runs out and lines
\* 182-186 / 308-312 / 399-400 apply
Continue ==
    IF MoreAttempts
    THEN /\ pc' = "loop"
         /\ attempt' = attempt + 1
         /\ UNCHANGED <<articles, approved_articles, scores, batch_success,
                        ret, ended, defaulted, terminal>>
    ELSE /\ attempt' = attempt
         /\ ended' = "fallthrough"
         /\ defaulted' = defaulted \cup BatchIdx
         /\ terminal' = terminal \cup BatchIdx
         /\ batch_success' = batch_success
         /\ IF op = "single"
            THEN pc' = "done" /\ ret' = RetScore(SCORE_DEFAULT) /\ SetData(Data)
            ELSE pc' = "after" /\ ret' = ret /\ SetData(Defaulted(Data))

\* `break` after the whole batch was given the default outcome
\* (lines 168-172 / 176-180 / 294-298 / 302-306)
BreakDefaulted(how) ==
    /\ SetData(Defaulted(Data))
    /\ batch_success' = TRUE
    /\ pc' = "after"
    /\ ended' = how
    /\ defaulted' = defaulted \cup BatchIdx
    /\ terminal' = terminal \cup BatchIdx
    /\ UNCHANGED <<attempt, ret>>

\* lines 126-134: no usable payload
AttemptEmpty ==
    /\ InLoop
    /\ reqs' = Append(reqs, Request)
    /\ sent' = sent \cup {BatchIdx}
    /\ current_model_name' = model_name_of(attempt)
    /\ model' = BoundModel
    /\ Continue
    /\ last' = "empty"
    /\ msg' = NoMarkers
    /\ only_quota' = FALSE
    /\ rotlog' = NoRot
    /\ UNCHANGED <<api_keys, current_key_index, op, batch_size, i, nrecs, seen,
                   oor, partials, notai>>

\* lines 123-134 / 243-254: the request is answered with response text;
\* json.loads and the loop over the records of the payload come next
AttemptParsed ==
    /\ InLoop
    /\ op \in {"filter", "score"}
    /\ reqs' = Append(reqs, Request)
    /\ sent' = sent \cup {BatchIdx}
    /\ current_model_name' = model_name_of(attempt)
    /\ model' = BoundModel
    /\ pc' = "records"
    /\ nrecs' = 0
    /\ last' = "text"
    /\ msg' = NoMarkers
    /\ oor' = FALSE
    /\ only_quota' = FALSE
    /\ rotlog' = NoRot
    /\ UNCHANGED <<api_keys, current_key_index, op, articles, batch_size, i,
                   attempt, batch_success, approved_articles, scores, ret,
                   seen, ended, partials, defaulted, terminal, notai>>

\* lines 140-146 / 260-266: one iteration of the loop over the records of a
\* response that holds at most max of them
ApplyRecord(rec, max) ==
    /\ pc = "records"
    /\ nrecs < max
    /\ nrecs' = nrecs + 1
    /\ SetData(IF op = "filter" THEN FilterRecord(Data, rec, i, BatchLen)
                                ELSE ScoreRecord(Data, rec, i, BatchLen))
    /\ seen' = IF InRange(rec, BatchLen)
               THEN [seen EXCEPT ![i + rec.id] = @ \cup {rec.score}]
               ELSE seen
    /\ oor' = (oor \/ ~InRange(rec, BatchLen))
    /\ rotlog' = NoRot
    /\ UNCHANGED <<scorer, pc, op, batch_size, i, attempt, batch_success, ret,
                   reqs, ended, last, msg, partials, only_quota, defaulted, sent,
                   terminal, notai>>

\* lines 148-150 / 268-276: the records are through; the batch succeeded
EndRecords ==
    /\ pc = "records"
    /\ SetData(IF op = "score" THEN ScoreFill(Data, BatchSeq(i, BatchLen)) ELSE Data)
    /\ batch_success' = TRUE
    /\ pc' = "after"
    /\ ended' = "success"
    /\ nrecs' = 0
    /\ last' = "success"
    /\ msg' = NoMarkers
    /\ oor' = FALSE
    /\ terminal' = terminal \cup BatchIdx
    /\ rotlog' = NoRot
    /\ UNCHANGED <<scorer, op, batch_size, i, attempt, ret, reqs, seen,
                   partials, only_quota, defaulted, sent, notai>>

\* variant: the parsed score is dropped for the sentinel
SingleSuccess_sentinel(s) ==
    /\ InLoop
    /\ op = "single"
    /\ reqs' = Append(reqs, Request)
    /\ sent' = sent \cup {BatchIdx}
    /\ terminal' = terminal \cup BatchIdx
    /\ current_model_name' = model_name_of(attempt)
    /\ model' = BoundModel
    /\ seen' = [seen EXCEPT ![1] = @ \cup {s}]
    /\ ret' = RetScore(SCORE_DEFAULT)
    /\ pc' = "done"
    /\ ended' = "success"
    /\ last' = "success"
    /\ msg' = NoMarkers
    /\ only_quota' = FALSE
    /\ rotlog' = NoRot
    /\ UNCHANGED <<api_keys, current_key_index, op, articles, batch_size, i,
                   attempt, batch_success, nrecs, approved_articles, scores,
                   oor, partials, defaulted, notai>>

\* lines 365-369: score_article returns the parsed score
SingleSuccess(s) ==
    /\ InLoop
    /\ op = "single"
    /\ reqs' = Append(reqs, Request)
    /\ sent' = sent \cup {BatchIdx}
    /\ terminal' = terminal \cup BatchIdx
    /\ current_model_name' = model_name_of(attempt)
    /\ model' = BoundModel
    /\ seen' = [seen EXCEPT ![1] = @ \cup {s}]
    /\ ret' = RetScore(s)
    /\ pc' = "done"
    /\ ended' = "success"
    /\ last' = "success"
    /\ msg' = NoMarkers
    /\ only_quota' = FALSE
    /\ rotlog' = NoRot
    /\ UNCHANGED <<api_keys, current_key_index, op, articles, batch_size, i,
                   attempt, batch_success, nrecs, approved_articles, scores,
                   oor, partials, defaulted, notai>>

\* An exception reaches the except clause: at pc "loop" the request raised
\* (lines 123 / 243 / 352; for score_article also json.loads or float,
\* lines 365-366); at pc "records" with nrecs = 0 json.loads, data.get or
\* the first record raised (lines 136-142 / 256-262), with nrecs > 0 the
\* record after the nrecs applied ones raised (lines 141-142 / 261-262).
Raised(max) ==
    /\ IF pc = "records"
       THEN /\ nrecs < max
            /\ nrecs > 0 => partials < MaxPartial
            /\ reqs' = reqs
            /\ sent' = sent
            /\ partials' = IF nrecs > 0 THEN partials + 1 ELSE partials
       ELSE /\ InLoop
            /\ reqs' = Append(reqs, Request)
            /\ sent' = sent \cup {BatchIdx}
            /\ partials' = partials
    /\ nrecs' = 0
    /\ oor' = FALSE
    /\ seen' = seen
    /\ UNCHANGED notai

\* lines 155-157 / 281-283 / 375-378
AttemptNotFound(m, max) ==
    /\ Raised(max)
    /\ last' = "notfound"
    /\ msg' = m
    /\ Classify(m) = "notfound"
    /\ current_model_name' = model_name_of(attempt)
    /\ model' = BoundModel
    /\ Continue
    /\ only_quota' = FALSE
    /\ rotlog' = NoRot
    /\ UNCHANGED <<api_keys, current_key_index, op, batch_size, i>>

\* lines 158-173 / 284-299 / 379-394
AttemptQuota(m, max) ==
    /\ Raised(max)
    /\ last' = "quota"
    /\ msg' = m
    /\ Classify(m) = "quota"
    /\ only_quota' = only_quota
    /\ LET name == model_name_of(attempt)
           todo == OnQuota(attempt, api_keys)
           r == rotate_api_key(api_keys, current_key_index, name, BoundModel)
       IN CASE todo = "rotate" ->
                 /\ rotlog' = RotRecord(r, current_key_index, name, BoundModel, "loop")
                 /\ current_key_index' = r.idx
                 /\ current_model_name' = (IF r.ret THEN fallback_models[1] ELSE r.name)
                 /\ model' = (IF r.ret THEN fallback_models[1] ELSE r.model)
                 /\ Continue
            [] todo = "exhausted" ->
                 /\ rotlog' = NoRot
                 /\ current_model_name' = name
                 /\ model' = BoundModel
                 /\ IF op = "single"
                    THEN /\ pc' = "done"
                         /\ ret' = RetScore(SCORE_DEFAULT)
                         /\ ended' = "quota"
                         /\ defaulted' = defaulted \cup BatchIdx
                         /\ terminal' = terminal \cup BatchIdx
                         /\ SetData(Data)
                         /\ UNCHANGED <<batch_success, attempt>>
                    ELSE BreakDefaulted("quota")
                 /\ UNCHANGED current_key_index
            [] OTHER ->
                 /\ rotlog' = NoRot
                 /\ current_model_name' = name
                 /\ model' = BoundModel
                 /\ Continue
                 /\ UNCHANGED current_key_index
    /\ UNCHANGED <<api_keys, op, batch_size, i>>

\* variant: an unclassified error moves on to the next attempt
AttemptOther_continue(m, max) ==
    /\ Raised(max)
    /\ last' = "other"
    /\ msg' = m
    /\ Classify(m) = "other"
    /\ current_model_name' = model_name_of(attempt)
    /\ model' = BoundModel
    /\ only_quota' = FALSE
    /\ rotlog' = NoRot
    /\ Continue
    /\ UNCHANGED <<api_keys, current_key_index, op, batch_size, i>>

\* lines 174-180 / 300-306 / 395-397
AttemptOther(m, max) ==
    /\ Raised(max)
    /\ last' = "other"
    /\ msg' = m
    /\ Classify(m) = "other"
    /\ current_model_name' = model_name_of(attempt)
    /\ model' = BoundModel
    /\ only_quota' = FALSE
    /\ rotlog' = NoRot
    /\ IF op = "single" THEN Continue ELSE BreakDefaulted("other")
    /\ UNCHANGED <<api_keys, current_key_index, op, batch_size, i>>

\* the caller takes the result; the scorer object lives on
Return ==
    /\ pc = "done"
    /\ pc' = "idle"
    /\ op' = "none"
    /\ articles' = <<>>
    /\ batch_size' = 1
    /\ seen' = <<>>
    /\ ret' = NoRet
    /\ ClearCall
    /\ UNCHANGED scorer

\* variant: the rotation drops the credential it leaves
RotateApiKey_drop ==
    /\ pc = "idle"
    /\ IF Len(api_keys) <= 1
       THEN /\ api_keys' = api_keys
            /\ current_key_index' = current_key_index
       ELSE /\ api_keys' = Tail(api_keys)
            /\ current_key_index' = 0
    /\ rotlog' = NoRot
    /\ UNCHANGED <<current_model_name, model, pc, op, articles, batch_size, i,
                   attempt, batch_success, nrecs, approved_articles, scores, ret,
                   reqs, seen, ended, last, msg, oor, partials, only_quota, defaulted,
                   sent, terminal, notai>>

\* _rotate_api_key called on its own (lines 52-65)
RotateApiKey ==
    /\ pc = "idle"
    /\ LET r == rotate_api_key(api_keys, current_key_index, current_model_name, model)
       IN /\ rotlog' = RotRecord(r, current_key_index, current_model_name, model, "caller")
          /\ current_key_index' = r.idx
          /\ current_model_name' = r.name
          /\ model' = r.model
    /\ UNCHANGED <<api_keys, pc, op, articles, batch_size, i, attempt,
                   batch_success, nrecs, approved_articles, scores, ret, reqs,
                   seen, ended, last, msg, oor, partials, only_quota, defaulted,
                   sent, terminal, notai>>

\* calls with every batch size that splits the list differently
Calls ==
    \/ \E arts \in ArticleLists, bs \in 1..MaxArticles : CallFilter(arts, bs)
    \/ \E arts \in ArticleLists, bs \in 1..MaxArticles : CallScore(arts, bs)
    \/ CallSingle([content_hash |-> "h1", score |-> INITIAL_SCORE])

\* the attempt loops against a service whose responses hold up to max records
Attempts(max) ==
    \/ AttemptEmpty
    \/ AttemptParsed
    \/ \E rec \in Records(BatchLen, Scores) : ApplyRecord(rec, max)
    \/ EndRecords
    \/ \E s \in Scores : SingleSuccess(s)
    \/ \E m \in Markers : AttemptNotFound(m, max)
    \/ \E m \in Markers : AttemptQuota(m, max)
    \/ \E m \in Markers : AttemptOther(m, max)

\* Spec: every pool size, every batch size and the whole attempt matrix;
\* a response holds at most one record
Next ==
    \/ Calls
    \/ Attempts(1)
    \/ NextBatch
    \/ Return

Spec == Init /\ [][Next]_vars

\* SpecPool: Spec, and the rotation operation called on its own
NextPool ==
    \/ Calls
    \/ Attempts(1)
    \/ NextBatch
    \/ Return
    \/ RotateApiKey

SpecPool == Init /\ [][NextPool]_vars

\* calls that take the whole list as one batch; a list of two items may also
\* be cut into two batches of one
TwoBatchSizes(arts) ==
    {bs \in 1..MaxArticles :
        \/ bs = Len(arts)
        \/ bs = 1 /\ Len(arts) \in {0, 2}}

CallsTwo ==
    \/ \E arts \in ArticleLists : \E bs \in TwoBatchSizes(arts) : CallFilter(arts, bs)
    \/ \E arts \in ArticleLists : \E bs \in TwoBatchSizes(arts) : CallScore(arts, bs)
    \/ CallSingle([content_hash |-> "h1", score |-> INITIAL_SCORE])

\* SpecData: at most one credential and two batches; a response holds up to
\* MaxRecs records and may raise after some of them were applied
InitData == Init /\ Len(api_keys) <= 1

NextData ==
    \/ CallsTwo
    \/ Attempts(MaxRecs)
    \/ NextBatch
    \/ Return

SpecData == InitData /\ [][NextData]_vars


\* SpecTwo: every pool size and the whole attempt matrix, calls of at most
\* two batches
NextTwo ==
    \/ CallsTwo
    \/ Attempts(1)
    \/ NextBatch
    \/ Return

SpecTwo == Init /\ [][NextTwo]_vars

\* SpecLive: SpecTwo where every awaited request is answered or raises and
\* the code between two awaits runs on: a step of the program is taken as
\* long as one is possible
SpecLive == SpecTwo /\ WF_vars(NextTwo)

\* ------------------------------------------------------ HTTPClient.fetch
\* core/http_client.py.  The retry wrapper of lines 30-34 runs the body up to
\* FETCH_ATTEMPTS times and runs it again only after httpx.RequestError (which
\* httpx.TimeoutException is a kind of).
FETCH_ATTEMPTS == 3

\* what a GET may come to: a status, or a transport error raised by the client
GetOutcomes == {"200", "403", "500", "RequestError"}

\* fetch(url) is called (line 35); the first attempt issues its GET (line 42)
FetchCall ==
    /\ fpc = "idle"
    /\ fpc' = "get"
    /\ attempt_number' = 1
    /\ fret' = "none"
    /\ gets' = <<>>
    /\ UNCHANGED notfetch

\* the body raised a transport error (line 55): the wrapper runs it again, or
\* gives up after the last attempt; no retry_error_callback and no reraise
\* are given, so giving up raises RetryError
FetchRetry ==
    IF attempt_number < FETCH_ATTEMPTS
    THEN fpc' = "get" /\ attempt_number' = attempt_number + 1 /\ fret' = fret
    ELSE fpc' = "done" /\ attempt_number' = attempt_number /\ fret' = "RetryError"

\* the body raised an exception the wrapper does not retry (lines 50, 55)
FetchRaise(exc) ==
    /\ fpc' = "done"
    /\ attempt_number' = attempt_number
    /\ fret' = exc

\* line 52
FetchText ==
    /\ fpc' = "done"
    /\ attempt_number' = attempt_number
    /\ fret' = "text"

\* lines 42-52: the GET of the url
FetchGet(o) ==
    /\ fpc = "get"
    /\ gets' = Append(gets, [url |-> "url", outcome |-> o, attempt |-> attempt_number])
    /\ CASE o = "RequestError" -> FetchRetry
         [] o = "403" -> fpc' = "cache" /\ UNCHANGED <<attempt_number, fret>>
         [] o = "200" -> FetchText
         [] OTHER -> FetchRaise("HTTPStatusError")
    /\ UNCHANGED notfetch

\* lines 45-52: after a 403 the GET of the cache url
FetchCache(o) ==
    /\ fpc = "cache"
    /\ gets' = Append(gets, [url |-> "cache", outcome |-> o, attempt |-> attempt_number])
    /\ CASE o = "RequestError" -> FetchRetry
         [] o = "200" -> FetchText
         [] OTHER -> FetchRaise("HTTPStatusError")
    /\ UNCHANGED notfetch

\* the caller has the text or the exception
FetchReturn ==
    /\ fpc = "done"
    /\ fpc' = "idle"
    /\ attempt_number' = 1
    /\ fret' = "none"
    /\ gets' = <<>>
    /\ UNCHANGED notfetch

\* SpecFetch: calls of fetch against a server that answers each GET anyhow
NextFetch ==
    \/ FetchCall
    \/ \E o \in GetOutcomes : FetchGet(o)
    \/ \E o \in GetOutcomes : FetchCache(o)
    \/ FetchReturn

SpecFetch == Init /\ [][NextFetch]_vars


\* --------------------------------------------------- TelegramPublisher
\* _load_numbered_bots / _load_simple_config (lines 46-105): a bot is kept
\* with the non-empty list of chat ids the environment names for it; the
\* ids are split at commas and are not compared with each other.
ChatLists == UNION {[1..n -> ChatIds] : n \in 1..MaxGroups}

RECURSIVE Groups(_)
\* line 137: total_groups
Groups(cfg) == IF cfg = <<>> THEN 0 ELSE Len(Head(cfg)) + Groups(Tail(cfg))

\* configurations up to renaming of the chat ids: the first id is "c1"
BotConfigs ==
    {cfg \in UNION {[1..n -> ChatLists] : n \in 0..MaxGroups} :
        /\ Groups(cfg) <= MaxGroups
        /\ cfg # <<>> => cfg[1][1] = "c1"}

RECURSIVE Pairs(_, _)
\* lines 140-141: the (bot, chat) pairs in the order the two loops visit them
Pairs(cfg, b) ==
    IF b > Len(cfg) THEN <<>>
    ELSE [k \in 1..Len(cfg[b]) |-> [bot_idx |-> b, pos |-> k, chat_id |-> cfg[b][k]]]
            \o Pairs(cfg, b + 1)

pair == Pairs(bot_configs, 1)[slot]

\* line 147
max_retries == 3

\* what str(e).lower() of a failed send may hold
SendErrors == {"429", "flood", "retry", "other"}

\* variant: every error is taken for a rate limit
RateLimited_any(e) == TRUE

\* line 166
RateLimited(e) == e \in {"429", "flood", "retry"}

\* lists publish is called with, up to renaming of the fingerprints
PubLists ==
    LET all == UNION {[1..n -> Hashes] : n \in 0..MaxArticles}
    IN {a \in all : a # <<>> => a[1] = "h1"}

NoDeliveries == [c \in ChatIds |-> 0]

\* __init__ (lines 11-44): the configuration is what the environment holds
PublisherInit(cfg) ==
    /\ ppc = "new"
    /\ ppc' = "idle"
    /\ bot_configs' = cfg
    /\ UNCHANGED <<pub_articles, pub_article, slot, send_attempt,
                   total_published, attempted, got, tries, plast, praised>>
    /\ UNCHANGED notpub

\* lines 125-141: the call; without bots it returns at once (line 132)
publish(arts) ==
    /\ pub_articles' = arts
    /\ attempted' = {}
    /\ got' = NoDeliveries
    /\ tries' = 0
    /\ plast' = "none"
    /\ praised' = FALSE
    /\ send_attempt' = 0
    /\ total_published' = 0
    /\ IF bot_configs = <<>> \/ arts = <<>>
       THEN ppc' = "done" /\ pub_article' = 0 /\ slot' = 0
       ELSE ppc' = "send" /\ pub_article' = 1 /\ slot' = 1
    /\ UNCHANGED bot_configs

Publish(arts) ==
    /\ ppc = "idle"
    /\ publish(arts)
    /\ UNCHANGED notpub

\* the pair is done with (break at line 163, or the handler at line 183):
\* the next chat, the next article (lines 134-137), or the end of the call;
\* g and tp are got and total_published after the send
NextChat(g, tp) ==
    /\ send_attempt' = 0
    /\ IF slot < Len(Pairs(bot_configs, 1))
       THEN /\ slot' = slot + 1
            /\ tries' = 0
            /\ got' = g
            /\ total_published' = tp
            /\ UNCHANGED <<ppc, pub_article>>
       ELSE IF pub_article < Len(pub_articles)
       THEN /\ pub_article' = pub_article + 1
            /\ slot' = 1
            /\ tries' = 0
            /\ got' = NoDeliveries
            /\ total_published' = 0
            /\ UNCHANGED ppc
       ELSE /\ ppc' = "done"
            /\ tries' = tries + 1
            /\ got' = g
            /\ total_published' = tp
            /\ UNCHANGED <<pub_article, slot>>

\* variant: the exception of a failed send leaves publish
OuterExcept_raise ==
    /\ ppc' = "done"
    /\ praised' = TRUE
    /\ tries' = tries + 1
    /\ UNCHANGED <<pub_article, slot, send_attempt, got, total_published>>

\* lines 183-184: the exception of the pair is logged
OuterExcept ==
    /\ NextChat(got, total_published)
    /\ praised' = praised

\* lines 150-163: the message is sent
SendOk ==
    /\ ppc = "send"
    /\ attempted' = attempted \cup {<<pub_article, pair.bot_idx, pair.pos>>}
    /\ plast' = "ok"
    /\ NextChat([got EXCEPT ![pair.chat_id] = @ + 1], total_published + 1)
    /\ praised' = praised
    /\ UNCHANGED <<bot_configs, pub_articles>>
    /\ UNCHANGED notpub

\* lines 164-181: send_message raises an exception with message e
SendRaise(e) ==
    /\ ppc = "send"
    /\ attempted' = attempted \cup {<<pub_article, pair.bot_idx, pair.pos>>}
    /\ plast' = e
    /\ IF RateLimited(e) /\ send_attempt < max_retries - 1
       THEN /\ send_attempt' = send_attempt + 1
            /\ tries' = tries + 1
            /\ UNCHANGED <<ppc, pub_article, slot, got, total_published, praised>>
       ELSE OuterExcept
    /\ UNCHANGED <<bot_configs, pub_articles>>
    /\ UNCHANGED notpub

\* publish returns to its caller
PublishReturn ==
    /\ ppc = "done"
    /\ ppc' = "idle"
    /\ UNCHANGED <<bot_configs, pub_articles, pub_article, slot, send_attempt,
                   total_published, attempted, got, tries, plast, praised>>
    /\ UNCHANGED notpub

\* SpecPub: every configuration, publish called with every list
InitPub == Init /\ api_keys = <<>>

NextPub ==
    \/ \E cfg \in BotConfigs : PublisherInit(cfg)
    \/ \E arts \in PubLists : Publish(arts)
    \/ SendOk
    \/ \E e \in SendErrors : SendRaise(e)
    \/ PublishReturn

SpecPub == InitPub /\ [][NextPub]_vars


\* ------------------------------------------------------------ Database
\* scores a stored row may hold
StoreScores == {SCORE_DEFAULT, THRESHOLD}

\* what the file at db_path holds when it is opened
StoredTables ==
    [Hashes -> {NoRow} \cup {Row(s, p) : s \in StoreScores, p \in 0..1}]

\* __init__ (lines 9-29) and init_db (lines 31-44): the table is created
\* only if it does not exist, so an existing file keeps its rows
DatabaseInit(en, table) ==
    /\ dbpc = "new"
    /\ dbpc' = "open"
    /\ enabled' = en
    /\ db_articles' = IF en THEN table ELSE [h \in Hashes |-> NoRow]
    /\ memory_hashes' = {}
    /\ dlast' = NoCall
    /\ UNCHANGED notdb

\* lines 46-59
article_exists(h) ==
    IF ~enabled THEN h \in memory_hashes ELSE db_articles[h].present

ArticleExists(h) ==
    /\ dbpc = "open"
    /\ dlast' = Call("exists", h, article_exists(h), FALSE)
    /\ UNCHANGED <<dbpc, enabled, db_articles, memory_hashes>>
    /\ UNCHANGED notdb

\* variant: an existing row is replaced
insert_replace(table, h, s) == [table EXCEPT ![h] = Row(s, 0)]

\* lines 72-80: insert(..., ignore=True)
insert_ignore(table, h, s) ==
    IF table[h].present THEN table ELSE [table EXCEPT ![h] = Row(s, 0)]

\* lines 61-82: save_article(article) with content_hash h and score s; the
\* insert may raise (ok = FALSE), which is logged
save_article(h, s, ok) ==
    IF ~enabled
    THEN /\ memory_hashes' = memory_hashes \cup {h}
         /\ db_articles' = db_articles
    ELSE /\ memory_hashes' = memory_hashes
         /\ db_articles' = IF ok THEN insert_ignore(db_articles, h, s) ELSE db_articles

SaveArticle(h, s, ok) ==
    /\ dbpc = "open"
    /\ ok \/ enabled
    /\ save_article(h, s, ok)
    /\ dlast' = Call("save", h, ok, FALSE)
    /\ UNCHANGED <<dbpc, enabled>>
    /\ UNCHANGED notdb

\* lines 84-93: mark_as_posted(h); update raises NotFoundError when the
\* table has no row with this key
mark_as_posted(h) ==
    /\ db_articles' = IF enabled /\ db_articles[h].present
                      THEN [db_articles EXCEPT ![h].posted = 1]
                      ELSE db_articles
    /\ dlast' = Call("mark", h, FALSE, enabled /\ ~db_articles[h].present)

MarkAsPosted(h) ==
    /\ dbpc = "open"
    /\ mark_as_posted(h)
    /\ UNCHANGED <<dbpc, enabled, memory_hashes>>
    /\ UNCHANGED notdb

\* SpecStore: the store on its own, every call in every order
InitStore == Init /\ api_keys = <<>>

NextStore ==
    \/ \E en \in BOOLEAN, table \in StoredTables : DatabaseInit(en, table)
    \/ \E h \in Hashes : ArticleExists(h)
    \/ \E h \in Hashes, s \in StoreScores, ok \in BOOLEAN : SaveArticle(h, s, ok)
    \/ \E h \in Hashes : MarkAsPosted(h)

SpecStore == InitStore /\ [][NextStore]_vars

\* ---------------------------------------------------------------- main
\* line 87
BATCH_SIZE == 40

\* what the scrapers deliver (lines 57-67): items by fingerprint, repeated
\* or not
ScrapedLists == UNION {[1..n -> Hashes] : n \in 0..MaxArticles}

RECURSIVE SubSeqs(_)
\* the sub-lists of a list, in its order
SubSeqs(q) ==
    IF q = <<>> THEN {<<>>}
    ELSE LET rest == SubSeqs(Tail(q))
         IN rest \cup {<<Head(q)>> \o r : r \in rest}

\* line 94 calls scorer.batch_filter_articles, which core/ai.py does not
\* define; the step is taken from the contract of the filter: it returns
\* the approved items of the batch, in their order.
batch_filter_articles(batch) == SubSeqs(batch)

\* what score_article may return (core/ai.py lines 317-400): 0.0 without a
\* model, the score of a response, or the default
ScoreResults ==
    IF model = NoModel THEN {DISABLED_SCORE} ELSE Scores \cup {SCORE_DEFAULT}

\* lines 57-67: the scrapers have run
Scrape(arts) ==
    /\ mpc = "idle"
    /\ dbpc = "open"
    /\ ppc = "idle"
    /\ mpc' = "dedup"
    /\ all_articles' = arts
    /\ UNCHANGED <<new_articles, batch_num, approved_batch, art_idx, score, published_count,
                   nscored, npublished, delivered, marked, known>>
    /\ UNCHANGED <<aivars, fetchvars, pubvars, dbvars>>

\* lines 69-77
Deduplicate ==
    /\ mpc = "dedup"
    /\ mpc' = "batch"
    /\ new_articles' = SelectSeq(all_articles, LAMBDA h : ~article_exists(h))
    /\ known' = {h \in Hashes : article_exists(h)}
    /\ dlast' = IF all_articles = <<>> THEN dlast
                ELSE LET h == all_articles[Len(all_articles)]
                     IN Call("exists", h, article_exists(h), FALSE)
    /\ batch_num' = 0
    /\ UNCHANGED <<all_articles, approved_batch, art_idx, score, published_count,
                   nscored, npublished, delivered, marked>>
    /\ UNCHANGED <<dbpc, enabled, db_articles, memory_hashes>>
    /\ UNCHANGED <<aivars, fetchvars, pubvars>>

\* line 90
batch == SubSeq(new_articles, batch_num + 1,
                Min(batch_num + BATCH_SIZE, Len(new_articles)))

\* lines 89-105: the next batch is filtered; enrich_article (line 105)
\* changes neither fingerprint nor score
FilterBatch(appr) ==
    /\ mpc = "batch"
    /\ batch_num < Len(new_articles)
    /\ appr \in batch_filter_articles(batch)
    /\ approved_batch' = appr
    /\ IF appr = <<>>
       THEN mpc' = "batch" /\ batch_num' = batch_num + BATCH_SIZE /\ art_idx' = art_idx
       ELSE mpc' = "score" /\ batch_num' = batch_num /\ art_idx' = 1
    /\ UNCHANGED <<all_articles, new_articles, score, published_count,
                   nscored, npublished, delivered, marked, known>>
    /\ UNCHANGED <<aivars, fetchvars, pubvars, dbvars>>

\* lines 122-126: no batch is left
MainEnd ==
    /\ mpc = "batch"
    /\ batch_num >= Len(new_articles)
    /\ mpc' = "done"
    /\ UNCHANGED <<all_articles, new_articles, batch_num, approved_batch, art_idx,
                   score, published_count, nscored, npublished, delivered, marked, known>>
    /\ UNCHANGED <<aivars, fetchvars, pubvars, dbvars>>

\* the next item of the approved batch, or the next batch
NextArticle ==
    IF art_idx < Len(approved_batch)
    THEN mpc' = "score" /\ art_idx' = art_idx + 1 /\ batch_num' = batch_num
    ELSE mpc' = "batch" /\ art_idx' = art_idx /\ batch_num' = batch_num + BATCH_SIZE

\* lines 110-116: the item is scored and saved; from 6.0 on, publish is
\* called with it
ScoreArticle(s, ok) ==
    /\ mpc = "score"
    /\ s \in ScoreResults
    /\ score' = s
    /\ ok \/ enabled
    /\ LET h == approved_batch[art_idx]
       IN /\ nscored' = [nscored EXCEPT ![h] = @ + 1]
          /\ save_article(h, s, ok)
          /\ dlast' = Call("save", h, ok, FALSE)
          /\ IF s >= THRESHOLD
             THEN /\ publish(<<h>>)
                  /\ npublished' = [npublished EXCEPT ![h] = @ + 1]
                  /\ mpc' = "publish"
                  /\ UNCHANGED <<art_idx, batch_num>>
             ELSE /\ UNCHANGED pubvars
                  /\ npublished' = npublished
                  /\ NextArticle
    /\ UNCHANGED <<all_articles, new_articles, approved_batch, published_count,
                   delivered, marked, known>>
    /\ UNCHANGED <<dbpc, enabled>>
    /\ UNCHANGED <<aivars, fetchvars>>

\* line 117
MarkIfDelivered(h) == mark_as_posted(h)

\* lines 116-118: publish has returned; mark_as_posted raises when the row
\* is not there, and main ends with that exception
AfterPublish ==
    /\ mpc = "publish"
    /\ ppc = "done"
    /\ ppc' = "idle"
    /\ LET h == approved_batch[art_idx]
       IN /\ MarkIfDelivered(h)
          /\ delivered' = IF total_published > 0 THEN delivered \cup {h} ELSE delivered
          /\ marked' = IF db_articles'[h].posted = 1 /\ db_articles[h].posted = 0
                       THEN marked \cup {h} ELSE marked
          /\ IF enabled /\ ~db_articles[h].present
             THEN mpc' = "crashed" /\ UNCHANGED <<art_idx, batch_num, published_count>>
             ELSE published_count' = published_count + 1 /\ NextArticle
    /\ UNCHANGED <<all_articles, new_articles, approved_batch, score,
                   nscored, npublished, known>>
    /\ UNCHANGED <<bot_configs, pub_articles, pub_article, slot, send_attempt,
                   total_published, attempted, got, tries, plast, praised>>
    /\ UNCHANGED <<dbpc, enabled, memory_hashes>>
    /\ UNCHANGED <<aivars, fetchvars>>

\* SpecMain: one run of main; the scorer has at most one credential, the
\* publisher at most one chat, the rows of the table hold one score
InitMain == Init /\ Len(api_keys) <= 1

MainTables == {t \in StoredTables : \A h \in Hashes : t[h].present => t[h].score = THRESHOLD}
MainConfigs == {cfg \in BotConfigs : Groups(cfg) <= 1}

NextMain ==
    \/ \E en \in BOOLEAN, table \in MainTables : DatabaseInit(en, table)
    \/ \E cfg \in MainConfigs : PublisherInit(cfg)
    \/ \E arts \in ScrapedLists : Scrape(arts)
    \/ Deduplicate
    \/ \E appr \in ScrapedLists : FilterBatch(appr)
    \/ MainEnd
    \/ \E s \in Scores \cup {SCORE_DEFAULT, DISABLED_SCORE}, ok \in BOOLEAN : ScoreArticle(s, ok)
    \/ SendOk
    \/ \E e \in SendErrors : SendRaise(e)
    \/ AfterPublish

SpecMain == InitMain /\ [][NextMain]_vars

\* ================================================================ claims
Range(f) == {f[k] : k \in DOMAIN f}
NumericScores == Scores \cup {SCORE_DEFAULT, FILTER_DEFAULT}

\* the (credential, endpoint) matrix in row order, as a request log
MatrixOrder(nk) ==
    [k \in 1..(nk * NumModels) |->
        [attempt |-> k - 1,
         key |-> (k - 1) \div NumModels,
         ep |-> fallback_models[((k - 1) % NumModels) + 1]]]

\* every item of the current batch holds the default outcome
BatchDefaulted ==
    CASE op = "filter" -> \A k \in BatchIdx :
                            /\ articles[k].score = FILTER_DEFAULT
                            /\ k \in Range(approved_articles)
      [] op = "score"  -> \A k \in BatchIdx :
                            /\ articles[k].score = SCORE_DEFAULT
                            /\ scores[articles[k].content_hash] = SCORE_DEFAULT
      [] OTHER         -> ret.score = SCORE_DEFAULT

\* C1: when batch_score_articles has returned, the content_hash of every
\* input article is a key of the returned map and maps to a numeric score.
C1_Totality ==
    (pc = "done" /\ op = "score") =>
        \A k \in 1..Len(articles) :
            /\ ret.map[articles[k].content_hash] # Unset
            /\ ret.map[articles[k].content_hash] \in NumericScores

\* C1 witness: a two-batch call returned one parsed and one default score.
C1_Witness ==
    /\ pc = "done" /\ op = "score" /\ Len(articles) = 2 /\ batch_size = 1
    /\ ret.map["h1"] = 40 /\ ret.map["h2"] = SCORE_DEFAULT
    /\ defaulted = {2}

\* C2: a batch all of whose attempts hit a quota error, ended with no
\* credential left, leaves every item with the sentinel: 5.0 in the slot and
\* in the map for batch_score_articles, 6.0 and a place in the approved
\* output for batch_filter_and_score_articles.
C2_Sentinel ==
    (pc = "after" /\ ended = "quota" /\ only_quota) =>
        /\ BatchDefaulted
        /\ batch_success
        /\ BatchIdx \subseteq defaulted

\* C2 witness: a two-item filter batch exhausted two credentials on quota.
C2_Witness ==
    /\ pc = "after" /\ ended = "quota" /\ only_quota
    /\ op = "filter" /\ BatchLen = 2 /\ Len(api_keys) = 2
    /\ Len(reqs) = 2 * NumModels

\* C3: with two credentials, a batch whose requests all fail with a quota
\* error issues them in the row order (C0,E0), (C0,E1), ..., (C1,E0), ...
\* of the matrix and is then exhausted and defaulted.
C3_AttemptOrdering ==
    (pc = "after" /\ Len(api_keys) = 2 /\ only_quota /\ ended = "quota") =>
        reqs = MatrixOrder(2)

\* C4: every request is issued under the credential attempt div |endpoints|
\* and to the endpoint attempt mod |endpoints|.
C4_AttemptDerivation ==
    \A k \in 1..Len(reqs) :
        /\ reqs[k].key = reqs[k].attempt \div NumModels
        /\ reqs[k].ep = fallback_models[(reqs[k].attempt % NumModels) + 1]

\* C5: a batch defaulted because of a quota error has attempted every
\* (credential, endpoint) pair of pool x catalog.
C5_QuotaTerminal ==
    (pc \in {"after", "done"} /\ ended = "quota") =>
        \A c \in 0..(Len(api_keys) - 1), e \in 1..NumModels :
            \E k \in 1..Len(reqs) :
                reqs[k].key = c /\ reqs[k].ep = fallback_models[e]

\* C6: after the attempt loop rotated the credential, the loop goes on and
\* its next request goes to endpoint 0; in the request log of a batch a
\* change of credential is always followed by endpoint 0.
C6_RotationReset ==
    /\ (rotlog.called /\ rotlog.by = "loop" /\ rotlog.ret) =>
           /\ pc = "loop"
           /\ attempt < max_attempts
           /\ model_name_of(attempt) = fallback_models[1]
           /\ current_model_name = fallback_models[1]
           /\ model = fallback_models[1]
    /\ \A k \in 1..(Len(reqs) - 1) :
           reqs[k + 1].key # reqs[k].key => reqs[k + 1].ep = fallback_models[1]

\* C6 witness: a request was issued under the credential rotated to.
C6_Witness ==
    /\ Len(reqs) > NumModels
    /\ reqs[NumModels + 1].key # reqs[NumModels].key
    /\ reqs[NumModels].ep = fallback_models[NumModels]

\* C7: _rotate_api_key with n >= 2 credentials sets the index to
\* (index + 1) mod n and returns success; with <= 1 credential it returns
\* failure and leaves index, model and endpoint as they were.
C7_Rotate ==
    rotlog.called =>
        IF Len(api_keys) >= 2
        THEN /\ rotlog.ret
             /\ rotlog.new_index = (rotlog.old_index + 1) % Len(api_keys)
             /\ rotlog.by = "caller" => current_key_index = rotlog.new_index
        ELSE /\ ~rotlog.ret
             /\ rotlog.new_index = rotlog.old_index
             /\ rotlog.new_name = rotlog.old_name
             /\ rotlog.new_model = rotlog.old_model
             /\ current_key_index = rotlog.old_index
             /\ current_model_name = rotlog.old_name
             /\ model = rotlog.old_model

\* C7 witness: a rotation wrapped from the last credential to the first.
C7_Witness ==
    /\ rotlog.called /\ rotlog.ret
    /\ rotlog.old_index = Len(api_keys) - 1 /\ rotlog.new_index = 0

\* C8 (as stated): right after a successful _rotate_api_key the current
\* endpoint is index 0 and the bound model targets endpoint 0.
C8_RotateResetsEndpoint ==
    (rotlog.called /\ rotlog.ret) =>
        /\ rotlog.new_name = fallback_models[1]
        /\ rotlog.new_model = fallback_models[1]

\* C8 (amended): a successful _rotate_api_key keeps current_model_name and
\* binds the model to it; the attempt loop then resets endpoint and model
\* to index 0.
C8_RotateKeepsEndpoint ==
    (rotlog.called /\ rotlog.ret) =>
        /\ rotlog.new_name = rotlog.old_name
        /\ rotlog.new_model = rotlog.old_name
        /\ rotlog.by = "loop" =>
              /\ current_model_name = fallback_models[1]
              /\ model = fallback_models[1]

\* C8 witness: the loop rotated while bound to the last endpoint.
C8_Witness ==
    /\ rotlog.called /\ rotlog.ret /\ rotlog.by = "loop"
    /\ rotlog.old_name = fallback_models[NumModels]
    /\ rotlog.new_name # fallback_models[1]

\* C9: with one credential a rotation fails and changes nothing, the
\* requests of a batch go to the endpoints in catalog order, one each, and
\* a batch that runs out of attempts has issued exactly |endpoints|
\* requests and is defaulted.
C9_SingleCredential ==
    Len(api_keys) = 1 =>
        /\ rotlog.called =>
              /\ ~rotlog.ret
              /\ current_key_index = rotlog.old_index
              /\ current_model_name = rotlog.old_name
              /\ model = rotlog.old_model
        /\ Len(reqs) <= NumModels
        /\ \A k \in 1..Len(reqs) :
              reqs[k] = [attempt |-> k - 1, key |-> 0, ep |-> fallback_models[k]]
        /\ (pc \in {"after", "done"} /\ ended \in {"quota", "fallthrough"}) =>
              /\ Len(reqs) = NumModels
              /\ BatchDefaulted

\* C9 witness: one credential, every endpoint failed, the batch is defaulted.
C9_Witness ==
    /\ Len(api_keys) = 1 /\ pc = "after" /\ ended = "fallthrough"
    /\ Len(reqs) = NumModels /\ op = "score"

\* the approved output so far, and the items whose batch is settled
Output == IF pc = "done" THEN ret.list ELSE approved_articles
Settled == IF pc = "done" THEN 1..Len(articles) ELSE 1..(i + BatchLen)
ParsedAtLeast(k, t) == \E sc \in seen[k] : sc >= t

\* C10 (as stated): with scoring enabled, an item is in the approved output
\* iff its parsed score is >= 6.0.
C10_Threshold ==
    (op = "filter" /\ pc \in {"after", "done"} /\ model # NoModel) =>
        \A k \in Settled : k \in Range(Output) <=> ParsedAtLeast(k, THRESHOLD)

\* C10 (amended): an item whose batch was not given the default outcome is
\* in the approved output iff a record with its ordinal and a score >= 6.0
\* was applied.
C10_ThresholdOnSuccess ==
    (op = "filter" /\ pc \in {"after", "done"} /\ model # NoModel) =>
        \A k \in Settled \ defaulted :
            k \in Range(Output) <=> ParsedAtLeast(k, THRESHOLD)

\* C10 witness: of two items of a succeeded batch one is approved at the
\* threshold and the other, scored below it, is left out.
C10_Witness ==
    /\ op = "filter" /\ pc = "done" /\ defaulted = {}
    /\ Len(articles) = 2
    /\ seen[1] = {THRESHOLD} /\ 1 \in Range(ret.list)
    /\ seen[2] = {40} /\ 2 \notin Range(ret.list)

\* C11: no item is lost on the default path of
\* batch_filter_and_score_articles: a batch that ended by exhaustion or by a
\* non-recoverable error has every item in the approved output with score
\* 6.0, and the items stay there with that score until the call returns.
C11_NoItemLost ==
    (op = "filter" /\ model # NoModel) =>
        /\ (pc = "after" /\ ended \in {"quota", "other", "fallthrough"}) =>
              /\ BatchIdx \subseteq defaulted
              /\ BatchDefaulted
        /\ pc \in {"loop", "records", "after", "done"} =>
              \A k \in defaulted :
                  /\ k \in Range(Output)
                  /\ articles[k].score = FILTER_DEFAULT

\* C11 witness: the call returned; the first batch succeeded and rejected its
\* item, the second was defaulted after a record had approved its item at
\* another score.
C11_Witness ==
    /\ op = "filter" /\ pc = "done" /\ Len(articles) = 2 /\ batch_size = 1
    /\ defaulted = {2} /\ partials = 1
    /\ 1 \notin Range(ret.list) /\ 2 \in Range(ret.list)
    /\ articles[2].score = FILTER_DEFAULT

\* the operation is one of the two batch loops
BatchOp == op \in {"filter", "score"}

\* C12: after a request of a batch loop failed with an error that is neither
\* not-found nor quota, the batch is terminal with the default outcome on
\* every item, the failed request is the last one issued for it, and the
\* next step is the move to the next batch (or the return of the call).
C12_OtherTerminal ==
    /\ [](BatchOp /\ last = "other" =>
            /\ pc = "after" /\ ended = "other" /\ batch_success
            /\ BatchDefaulted
            /\ BatchIdx \subseteq defaulted
            /\ reqs # <<>> /\ reqs[Len(reqs)].attempt = attempt)
    /\ [][BatchOp /\ last = "other" =>
            /\ reqs' = <<>>
            /\ i' = i + batch_size
            /\ pc' = IF i + batch_size < Len(articles) THEN "loop" ELSE "done"]_vars

\* C12 witness: the second request of the first of two batches failed with
\* an unclassified error while attempts remained.
C12_Witness ==
    /\ op = "score" /\ last = "other" /\ pc = "after"
    /\ Len(articles) = 2 /\ batch_size = 1 /\ i = 0
    /\ Len(reqs) = 2 /\ attempt = 1 /\ attempt + 1 < max_attempts
    /\ articles[1].score = SCORE_DEFAULT

\* C13: when the request of attempt k of a batch comes back without a usable
\* payload or fails with a not-found error, the step assigns no outcome and
\* leaves the credential alone; if k is not the last attempt the loop is at
\* attempt k+1, otherwise the batch is defaulted.  The requests of a batch
\* are numbered consecutively and go to the endpoints in cyclic order.
C13_Recoverable ==
    /\ [][(BatchOp /\ pc = "loop" /\ last' \in {"empty", "notfound"}) =>
            /\ current_key_index' = current_key_index
            /\ api_keys' = api_keys
            /\ rotlog' = NoRot
            /\ IF attempt + 1 < max_attempts
               THEN /\ pc' = "loop" /\ attempt' = attempt + 1
                    /\ ended' = "none" /\ batch_success' = batch_success
                    /\ UNCHANGED <<articles, approved_articles, scores, defaulted>>
               ELSE /\ pc' = "after" /\ ended' = "fallthrough"
                    /\ BatchIdx \subseteq defaulted'
                    /\ BatchDefaulted']_vars
    /\ [](\A k \in 1..Len(reqs) :
            /\ reqs[k].attempt = k - 1
            /\ reqs[k].ep = fallback_models[((k - 1) % NumModels) + 1])

\* C13 witness: with two credentials a whole sweep of not-found errors went
\* by; the loop is at the next attempt under the same credential and nothing
\* was assigned.
C13_Witness ==
    /\ op = "filter" /\ pc = "loop" /\ last = "notfound"
    /\ Len(api_keys) = 2 /\ current_key_index = 0
    /\ attempt = NumModels /\ Len(reqs) = NumModels
    /\ approved_articles = <<>> /\ defaulted = {}
    /\ \A k \in 1..Len(articles) : articles[k].score = INITIAL_SCORE

\* the step is an exception caught by the except clause of the attempt loop
Caught == last' \in {"notfound", "quota", "other"}

\* C14: when the response text of attempt k of a batch cannot be parsed
\* (json.loads raises before any record is looked at) and k is not the last
\* attempt, the loop is at attempt k+1 and the batch is not defaulted.
C14_InvalidPayloadRecoverable ==
    [][(BatchOp /\ pc = "records" /\ nrecs = 0 /\ Caught) =>
          (attempt + 1 < max_attempts =>
              /\ pc' = "loop" /\ attempt' = attempt + 1
              /\ defaulted' = defaulted)]_vars

\* C15: a batch never ends as succeeded on a response that yielded no usable
\* judgment: a succeeded batch has at least one item with an applied
\* in-range record.
C15_ZeroJudgmentsRecoverable ==
    (BatchOp /\ pc = "after" /\ ended = "success" /\ partials = 0) =>
        \E k \in BatchIdx : seen[k] # {}

\* C16: a record that raises while it is processed, after earlier records of
\* the same response were applied, is dropped on its own: the step does not
\* give the batch the default outcome and does not end the loop over the
\* records.
C16_BadRecordDiscarded ==
    [][(BatchOp /\ pc = "records" /\ nrecs > 0 /\ Caught) =>
          /\ defaulted' = defaulted
          /\ pc' = "records"]_vars

\* C17: a record whose ordinal is outside 1..len(batch) changes no item, no
\* approval and no map entry; while the records of the first response that
\* is applied to a batch are processed, the outcome of every item is that of
\* the in-range records for its ordinal alone, whether or not out-of-range
\* records came with them.
C17_OutOfRangeDiscarded ==
    /\ [][(BatchOp /\ pc = "records" /\ nrecs' = nrecs + 1) =>
            \A rec \in Records(BatchLen, Scores) :
                (~InRange(rec, BatchLen) /\ ApplyRecord(rec, MaxRecs)) =>
                    UNCHANGED <<articles, approved_articles, scores, seen>>]_vars
    /\ [](BatchOp /\ pc = "records" /\ partials = 0 =>
            \A k \in BatchIdx :
                /\ seen[k] = {} => articles[k].score = INITIAL_SCORE
                /\ op = "score" /\ seen[k] # {} => articles[k].score \in seen[k]
                /\ op = "filter" =>
                      /\ k \in Range(approved_articles) <=> ParsedAtLeast(k, THRESHOLD)
                      /\ articles[k].score \in seen[k] \cup {INITIAL_SCORE})

\* C17 witness: a response held an out-of-range record and a record for item
\* 1; item 1 has its score and item 2 is untouched.
C17_Witness ==
    /\ op = "score" /\ pc = "records" /\ oor /\ nrecs = 2 /\ partials = 0
    /\ Len(articles) = 2 /\ batch_size = 2
    /\ seen[1] = {40} /\ articles[1].score = 40
    /\ seen[2] = {} /\ articles[2].score = INITIAL_SCORE

\* C18: on a successful attempt of batch_score_articles every item of the
\* batch without an in-range judgment in the response holds the default 5.0
\* (slot and map), and every item with one holds a score parsed for its
\* ordinal (slot and map).
C18_FillIn ==
    (op = "score" /\ pc = "after" /\ ended = "success" /\ partials = 0) =>
        \A k \in BatchIdx :
            LET h == articles[k].content_hash
            IN IF seen[k] = {}
               THEN articles[k].score = SCORE_DEFAULT /\ scores[h] = SCORE_DEFAULT
               ELSE articles[k].score \in seen[k] /\ scores[h] \in seen[k]

\* C19: score_article follows the policy of the batch loops; in particular
\* an unclassified error ends its attempts at once with the sentinel 5.0.
C19_SingleOtherTerminal ==
    (op = "single" /\ last = "other") =>
        /\ pc = "done"
        /\ ret.score = SCORE_DEFAULT

\* C20 (as stated): when score_article has returned, the result is the score
\* parsed from the first usable response, or the sentinel 5.0 if no attempt
\* produced one.
C20_SingleReturn ==
    (op = "single" /\ pc = "done") =>
        IF ended = "success" THEN seen[1] = {ret.score} ELSE ret.score = SCORE_DEFAULT

\* C20 (amended): with a model configured, score_article returns the score
\* of the first usable response, issued as its last request, or 5.0 when the
\* attempts ended without one; with no model it returns 0.0 and issues no
\* request.
C20_SingleReturnEnabled ==
    (op = "single" /\ pc = "done") =>
        IF model = NoModel
        THEN ret.score = DISABLED_SCORE /\ reqs = <<>> /\ seen[1] = {}
        ELSE IF ended = "success"
        THEN seen[1] = {ret.score} /\ Len(reqs) = attempt + 1
        ELSE /\ ret.score = SCORE_DEFAULT
             /\ seen[1] = {}
             /\ ended \in {"quota", "fallthrough"}

\* C20 witness: two requests failed, one of them with an unclassified error,
\* and the third was answered with a score, which is returned.
C20_Witness ==
    /\ op = "single" /\ pc = "done" /\ ended = "success"
    /\ Len(reqs) = 3 /\ attempt = 2
    /\ ret.score = 40 /\ seen[1] = {40}

\* ---------------------------------------------------------------- C21
\* C21: with an empty credential pool every scoring operation returns at once:
\* no request is issued, no attempt loop is entered, no item is touched;
\* batch_filter_and_score_articles returns the input list as it is and
\* batch_score_articles maps the fingerprint of every input item to the default.
C21_PassThrough ==
    api_keys = <<>> =>
        /\ model = NoModel
        /\ pc \in {"idle", "done"}
        /\ reqs = <<>>
        /\ pc = "done" =>
             /\ \A k \in 1..Len(articles) : articles[k].score = INITIAL_SCORE
             /\ op = "filter" => ret.list = BatchSeq(0, Len(articles))
             /\ op = "score" =>
                  \A k \in 1..Len(articles) : ret.map[articles[k].content_hash] = SCORE_DEFAULT

\* C21 witness: two items with different fingerprints went through
\* batch_score_articles of a scorer without credentials
C21_Witness ==
    /\ api_keys = <<>>
    /\ op = "score"
    /\ pc = "done"
    /\ Len(articles) = 2
    /\ articles[2].content_hash = "h2"
    /\ ret.map["h1"] = SCORE_DEFAULT
    /\ ret.map["h2"] = SCORE_DEFAULT
    /\ reqs = <<>>

\* ---------------------------------------------------------------- C22
\* the j-th slice of batch_size items of the input list (j from 0)
Slice(j) == {k \in 1..Len(articles) : (k - 1) \div batch_size = j}

Live == pc \in {"loop", "records", "after", "done"}

\* C22: the batches are the consecutive slices of at most batch_size items:
\* every request carries one whole slice, no item is in two requested slices,
\* and when the call is over every item was in exactly one; the batches run in
\* order: while a batch is being attempted every earlier item is terminal and
\* no item of the batch is, and a request is issued only in such a state.
C22_Batching ==
    /\ [](BatchOp /\ model # NoModel /\ Live =>
            /\ \A S \in sent :
                  /\ S # {}
                  /\ Cardinality(S) <= batch_size
                  /\ \E j \in 0..Len(articles) : S = Slice(j)
                  /\ S \subseteq terminal \/ (pc \in {"loop", "records"} /\ S = BatchIdx)
            /\ \A k \in 1..Len(articles) : Cardinality({S \in sent : k \in S}) <= 1
            /\ pc \in {"loop", "records"} => terminal = 1..i /\ i < Len(articles)
            /\ pc = "after" =>
                  /\ terminal = 1..(i + BatchLen)
                  /\ BatchIdx \in sent
                  /\ ended \in {"success", "quota", "other", "fallthrough"}
                  /\ ended # "success" => BatchIdx \subseteq defaulted
            /\ pc = "done" =>
                  /\ terminal = 1..Len(articles)
                  /\ \A k \in 1..Len(articles) : Cardinality({S \in sent : k \in S}) = 1)
    /\ [][(BatchOp /\ reqs' # reqs /\ reqs' # <<>>) =>
            /\ pc = "loop"
            /\ Len(reqs') = Len(reqs) + 1
            /\ BatchIdx = Slice(i \div batch_size)
            /\ BatchIdx \in sent'
            /\ terminal = 1..i
            /\ i' = i]_vars

\* C22 witness: the second of two batches of one item is being attempted a
\* second time; the first batch has ended
C22_Witness ==
    /\ op = "filter"
    /\ pc = "loop"
    /\ Len(articles) = 2 /\ batch_size = 1
    /\ i = 1
    /\ attempt = 1 /\ Len(reqs) = 1
    /\ sent = {{1}, {2}}
    /\ terminal = {1}

\* ---------------------------------------------------------------- C23
Busy == pc \in {"loop", "records", "after"}

\* C23: no batch and no score_article call issues more than
\* |credentials| x |endpoints| requests, and a call that entered its attempt
\* loop returns, whatever the outcome of each request is.
C23_BoundedTermination ==
    /\ [](Len(reqs) <= Len(api_keys) * NumModels)
    /\ [](pc = "after" => ended \in {"success", "quota", "other", "fallthrough"})
    /\ (Busy ~> pc = "done")

\* C23 witness: every request of the matrix of two credentials was issued and
\* the batch ended by running out of attempts
C23_Witness ==
    /\ op = "filter"
    /\ pc = "after"
    /\ Len(api_keys) = 2
    /\ Len(reqs) = 2 * NumModels
    /\ ended = "fallthrough"
    /\ last = "notfound"

\* ---------------------------------------------------------------- C24
\* the record lists of a well-formed response for a batch of n items, up to
\* two records long: none, one, a repeated ordinal, two different items
RecLists(n) == UNION {[1..m -> Records(n, Scores)] : m \in 0..2}

RECURSIVE ParseRecords(_, _, _, _)
\* lines 140-146 / 260-266: the loop over the records of one response
ParseRecords(st, recs, off, n) ==
    IF recs = <<>> THEN st
    ELSE ParseRecords(IF op = "filter" THEN FilterRecord(st, Head(recs), off, n)
                                       ELSE ScoreRecord(st, Head(recs), off, n),
                      Tail(recs), off, n)

\* the items a parse that led from st0 to st1 has approved, in order
Appended(st0, st1) == SubSeq(st1.approved, Len(st0.approved) + 1, Len(st1.approved))

\* the data of the call before any response was parsed
FreshData ==
    [arts |-> [k \in 1..Len(articles) |-> [articles[k] EXCEPT !.score = INITIAL_SCORE]],
     approved |-> <<>>,
     scores |-> [h \in Hashes |-> Unset]]

C25_PoolImmutable ==
    /\ [][api_keys' = api_keys]_vars
    /\ [](api_keys = [k \in 1..Len(api_keys) |-> k])
    /\ [](\A k \in 1..Len(reqs) :
            /\ reqs[k].ep \in Range(fallback_models)
            /\ reqs[k].ep = fallback_models[(reqs[k].attempt % NumModels) + 1]
            /\ reqs[k].key \in 0..(Len(api_keys) - 1))

\* C25 witness: a quota error at the last endpoint rotated to the second
\* credential and the loop went on to request with it; the pool is as loaded
C25_Witness ==
    /\ api_keys = <<1, 2>>
    /\ current_key_index = 1
    /\ Len(reqs) = NumModels + 1
    /\ reqs[NumModels].key = 0
    /\ reqs[NumModels + 1].key = 1
    /\ last = "notfound"

\* ---------------------------------------------------------------- C26
\* C26: when fetch is over the caller has the page text if a GET was answered
\* with a success status, and None otherwise: after the attempts are used up
\* on transport errors and after an HTTP error status alike.
C26_FetchNone ==
    fpc = "done" =>
        /\ attempt_number <= FETCH_ATTEMPTS
        /\ IF gets[Len(gets)].outcome = "200" THEN fret = "text" ELSE fret = "None"

\* ---------------------------------------------------------------- C27
\* C27: when batch_score_articles returns, the score slot of every input
\* item holds the value the returned map has for the item's fingerprint.
C27_SlotConsistency ==
    (op = "score" /\ pc = "done") =>
        \A k \in 1..Len(articles) : articles[k].score = ret.map[articles[k].content_hash]

\* ---------------------------------------------------------------- C28
\* C28: the list batch_filter_and_score_articles returns holds no input item
\* more than once.
C28_NoDuplicates ==
    (op = "filter" /\ pc = "done") =>
        \A a, b \in 1..Len(ret.list) : a # b => ret.list[a] # ret.list[b]

\* ---------------------------------------------------------------- C29
\* C29: with a non-empty pool the credential pointer stays inside the pool,
\* current_model_name is an entry of the catalog, and the bound model object
\* targets the endpoint current_model_name names, after every step of every
\* operation and every rotation.
C29_PointerInvariant ==
    api_keys # <<>> =>
        /\ 0 <= current_key_index
        /\ current_key_index < Len(api_keys)
        /\ current_model_name \in Range(fallback_models)
        /\ model = current_model_name

\* C29 witness: a call left the pointers at the second endpoint and a
\* rotation called on its own then moved to the second credential
C29_Witness ==
    /\ Len(api_keys) = 2
    /\ rotlog.called
    /\ rotlog.by = "caller"
    /\ rotlog.old_index = 0
    /\ current_key_index = 1
    /\ current_model_name = fallback_models[2]
    /\ model = fallback_models[2]

\* ---------------------------------------------------------------- C30
\* the latest attempt ended in a quota error at the last endpoint of a sweep
\* that is not the last sweep of the matrix
QuotaAtSweepEnd ==
    /\ last' = "quota"
    /\ model_index(attempt) = Len(fallback_models) - 1
    /\ key_index(attempt) < Len(api_keys) - 1

\* C30: a step of a scoring operation changes current_key_index exactly when
\* it is a quota error at the last endpoint of a sweep with more credentials
\* to come, and then to the next credential; a success, an empty response, a
\* not-found error, an unclassified error and a quota error at any other
\* endpoint leave it as it is, also when they rebind the endpoint.
C30_CredentialFrame ==
    /\ [][current_key_index' # current_key_index <=>
             (pc \in {"loop", "records"} /\ pc' # "records" /\ QuotaAtSweepEnd)]_vars
    /\ [][current_key_index' # current_key_index =>
             /\ rotlog'.called /\ rotlog'.ret
             /\ current_key_index' = (current_key_index + 1) % Len(api_keys)]_vars
    /\ [][(last' \in {"success", "empty", "text", "notfound", "other"}
             /\ current_model_name' # current_model_name) =>
             current_key_index' = current_key_index]_vars

\* C30 witness: the quota error at the last endpoint of the first sweep moved
\* the pointer to the second credential; the two not-found errors before it
\* had switched endpoints under the first one
C30_Witness ==
    /\ op = "score"
    /\ pc = "loop"
    /\ last = "quota"
    /\ attempt = NumModels
    /\ Len(reqs) = NumModels
    /\ \A k \in 1..NumModels : reqs[k].key = 0
    /\ current_key_index = 1
    /\ ~only_quota

\* ---------------------------------------------------------------- C31
\* the step catches an exception whose message holds a not-found marker
\* and a quota marker
CaughtBoth ==
    /\ pc \in {"loop", "records"}
    /\ Caught
    /\ msg'.nf /\ msg'.q

\* C31: an exception whose message holds both a not-found marker and a quota
\* marker is handled as not-found: the step only moves on to the next
\* attempt (or the loop runs out), it never calls _rotate_api_key, never
\* moves the credential pointer and never ends the batch as quota-exhausted,
\* also at the last endpoint of a sweep.
C31_NotFoundFirst ==
    [][CaughtBoth =>
          /\ last' = "notfound"
          /\ rotlog' = NoRot
          /\ current_key_index' = current_key_index
          /\ api_keys' = api_keys
          /\ ended' # "quota"
          /\ IF attempt + 1 < max_attempts
             THEN /\ pc' = "loop" /\ attempt' = attempt + 1
                  /\ ended' = "none"
                  /\ defaulted' = defaulted
                  /\ UNCHANGED <<articles, approved_articles, scores>>
             ELSE /\ pc' \in {"after", "done"}
                  /\ ended' = "fallthrough"]_vars

\* C31 witness: with two credentials, the error at the last endpoint of the
\* first sweep held both markers; the loop went on to the next attempt under
\* the first credential.
C31_Witness ==
    /\ pc = "loop"
    /\ last = "notfound"
    /\ msg.nf /\ msg.q
    /\ Len(api_keys) = 2
    /\ attempt = NumModels
    /\ Len(reqs) = NumModels
    /\ current_key_index = 0
    /\ rotlog = NoRot

\* ---------------------------------------------------------------- C32
\* the step is a send_message call of publish
SendStep == ppc = "send" /\ pubvars' # pubvars

\* the pairs of the configuration whose chat id is c
Entries(c) == {k \in 1..Len(Pairs(bot_configs, 1)) : Pairs(bot_configs, 1)[k].chat_id = c}

AllPositions ==
    {<<a, Pairs(bot_configs, 1)[k].bot_idx, Pairs(bot_configs, 1)[k].pos>> :
        a \in 1..Len(pub_articles), k \in 1..Len(Pairs(bot_configs, 1))}

\* the send of the step failed and was the last one for its pair
PairFailed ==
    /\ SendStep
    /\ plast' # "ok"
    /\ ~(ppc' = "send" /\ pub_article' = pub_article /\ slot' = slot)

\* C33: publish makes a send for every chat of every bot for every article
\* of the list; a pair that fails with another error than a rate limit, or
\* that uses up its sends, is followed by the next pair in the order of the
\* loops, and the call ends only after the last pair of the last article;
\* no exception leaves publish.
C33_FailureIsolation ==
    /\ [](~praised)
    /\ [](ppc = "done" /\ bot_configs # <<>> => attempted = AllPositions)
    /\ [][PairFailed =>
            /\ plast' \notin {"429", "flood", "retry"} \/ tries = 2
            /\ IF slot < Len(Pairs(bot_configs, 1))
               THEN ppc' = "send" /\ slot' = slot + 1 /\ pub_article' = pub_article
               ELSE IF pub_article < Len(pub_articles)
               THEN ppc' = "send" /\ slot' = 1 /\ pub_article' = pub_article + 1
               ELSE ppc' = "done"
            /\ total_published' = (IF pub_article' = pub_article THEN total_published ELSE 0)]_vars

\* C33 witness: of the two chats of the call, the first failed and the
\* second, tried after it, received the article
C33_Witness ==
    /\ ppc = "done"
    /\ Len(pub_articles) = 1
    /\ Len(Pairs(bot_configs, 1)) = 2
    /\ Cardinality(attempted) = 2
    /\ plast = "ok"
    /\ total_published = 1
    /\ ~praised

\* ---------------------------------------------------------------- C34
\* the step is a save_article call for a fingerprint the table holds
SaveOfStored ==
    /\ dbpc = "open"
    /\ dlast'.op = "save"
    /\ dbvars' # dbvars
    /\ db_articles[dlast'.h].present

\* C34: save_article for a fingerprint that is already stored leaves the
\* table as it is; over any sequence of save_article and mark_as_posted
\* calls a row is never removed and its posted flag never goes back from 1
\* to 0.
C34_InsertIfAbsent ==
    /\ [][SaveOfStored => db_articles' = db_articles]_vars
    /\ [][dbpc = "open" =>
            \A h \in Hashes :
                /\ db_articles[h].present => db_articles'[h].present
                /\ db_articles[h].posted = 1 => db_articles'[h].posted = 1]_vars

\* C34 witness: save_article was called, and its insert did not raise, for a
\* fingerprint whose row is marked as posted; the row still is
C34_Witness ==
    /\ enabled
    /\ dlast = Call("save", "h1", TRUE, FALSE)
    /\ db_articles["h1"] = Row(THRESHOLD, 1)

\* ---------------------------------------------------------------- C35
\* the step of main is a mark_as_posted call that set the posted flag of h
MarkedPosted(h) ==
    /\ mpc = "publish"
    /\ mpc' # "publish"
    /\ enabled
    /\ dlast' = Call("mark", h, FALSE, FALSE)
    /\ db_articles'[h].posted = 1

\* C35: main marks an article as posted in the store only if its row was
\* saved before, score_article gave it 6.0 or more, and the publish call
\* made for it delivered it to at least one chat.
C35_PostedOnlyIfDelivered ==
    /\ [][\A h \in Hashes :
            MarkedPosted(h) =>
               /\ db_articles[h].present
               /\ nscored[h] >= 1
               /\ score >= THRESHOLD
               /\ total_published > 0]_vars
    /\ [](\A h \in marked : h \in delivered /\ db_articles[h].present)

\* ---------------------------------------------------------------- C36
\* C36: in one run of main a fingerprint is scored at most once and
\* published at most once, however many scraped items carry it, and a
\* fingerprint the store held when the run looked is neither scored nor
\* published.
C36_DedupWithinRun ==
    \A h \in Hashes :
        /\ nscored[h] <= 1
        /\ npublished[h] <= 1
        /\ h \in known => nscored[h] = 0 /\ npublished[h] = 0

====
